---- MODULE Spec2Model ----
(***************************************************************************)
(* A model of opentrade's client session gateway, Connection               *)
(* (src/src/opentrade/connection.cc): one session object, its strand, its  *)
(* publisher timer, the process-wide token table and the engines it calls. *)
(***************************************************************************)
EXTENDS Integers, Sequences, FiniteSets, TLC

(***************************************************************************)
(* JSON values.  A value is a record [k, v]: k is the JSON kind, v the     *)
(* payload.  Floats are kept in tenths (v = 15 is 1.5).                    *)
(***************************************************************************)
S(x) == [k |-> "string", v |-> x]
I(x) == [k |-> "int", v |-> x]
F(x) == [k |-> "float", v |-> x]
B(x) == [k |-> "bool", v |-> x]
A(x) == [k |-> "array", v |-> x]
O(x) == [k |-> "object", v |-> x]
Null == [k |-> "null", v |-> 0]

\* The string holding the text of an inbound message (error frames quote it).
Raw(m) == [k |-> "text", v |-> m]

\* The outcome of a read past the end of an array that ends the process.
Segv == [k |-> "segv", v |-> 0]

is_number_integer(j) == j.k = "int"
is_number_float(j) == j.k = "float"
is_number(j) == j.k \in {"int", "float"}
is_string(j) == j.k = "string"
is_boolean(j) == j.k = "bool"
is_array(j) == j.k = "array"
is_object(j) == j.k = "object"

\* size(): elements of an array, 0 for null, 1 for a scalar.
JSize(j) == IF is_array(j) THEN Len(j.v) ELSE IF j.k = "null" THEN 0 ELSE 1

(***************************************************************************)
(* Reference data held by the engines (AccountManager, SecurityManager,    *)
(* AlgoManager, PositionManager); the session never changes it.            *)
(***************************************************************************)
NoUser == 0

sha1(str) == <<"sha1", str>>

Users == {
  [name |-> "alice", id |-> 1, password |-> sha1("pw"), is_disabled |-> FALSE,
   is_admin |-> FALSE, sub_accounts |-> {1}],
  [name |-> "bob", id |-> 2, password |-> sha1("pw"), is_disabled |-> FALSE,
   is_admin |-> TRUE, sub_accounts |-> {2}],
  [name |-> "carol", id |-> 3, password |-> sha1("pw"), is_disabled |-> TRUE,
   is_admin |-> FALSE, sub_accounts |-> {1}] }

UserIds == {u.id : u \in Users}
UserById(id) == CHOOSE u \in Users : u.id = id

\* AccountManager::GetUser(name): the user, or NoUser
GetUser(name) ==
  IF \E u \in Users : u.name = name
  THEN (CHOOSE u \in Users : u.name = name).id
  ELSE NoUser

SubAccounts == {[id |-> 1, name |-> "desk1"], [id |-> 2, name |-> "desk2"]}
SubAccountIds == {a.id : a \in SubAccounts}
SubAccountName(id) == (CHOOSE a \in SubAccounts : a.id = id).name
NoAccount == 0

\* AccountManager::GetSubAccount(name): the sub-account id, or NoAccount
GetSubAccount(name) ==
  IF \E a \in SubAccounts : a.name = name
  THEN (CHOOSE a \in SubAccounts : a.name = name).id
  ELSE NoAccount

SecurityIds == {1, 2}

\* SecurityManager::Get(id) finds the security
SecurityKnown(id) == id \in SecurityIds

\* Algo adapters registered with the AlgoManager, and sub-account ids as
\* broker accounts of the AccountManager.
AlgoNames == {"TWAP"}
BrokerAccounts == {[id |-> 7, name |-> "broker1"]}

\* Start-of-day positions, PositionManager::bods_ : (sub-account, security)
BodKeys == <<(<<1, 1>>), (<<2, 1>>)>>

\* Adapter names of the exchange-connectivity and market-data managers
EcAdapter == "ec1"
MdAdapter == "md1"

\* Orders known to the GlobalOrderBook, and the confirmations and algo events
\* in its stores (LoadStore replays them): seq and owning sub-account / user
KnownOrderIds == {5}
StoredConfirmations ==
  <<[seq |-> 1, acc |-> 1, exec_type |-> "kNew", exec_trans_type |-> "kTransNew"],
    [seq |-> 2, acc |-> 1, exec_type |-> "kFilled", exec_trans_type |-> "kTransNew"]>>
StoredAlgoEvents == <<[seq |-> 1, user |-> 1]>>

(***************************************************************************)
(* Market-data snapshots (MarketData): tm, the trade fields and five depth *)
(* levels.  The engines move a security between a few snapshots.           *)
(***************************************************************************)
ZeroDepth == [i \in 1..5 |-> [ask_price |-> 0, ask_size |-> 0, bid_price |-> 0, bid_size |-> 0]]
ZeroTrade == [open |-> 0, high |-> 0, low |-> 0, close |-> 0, qty |-> 0, volume |-> 0, vwap |-> 0]
ZeroMd == [tm |-> 0, trade |-> ZeroTrade, depth |-> ZeroDepth]
MdA == [tm |-> 1, trade |-> [ZeroTrade EXCEPT !.close = 10, !.qty = 1],
        depth |-> [ZeroDepth EXCEPT ![1].ask_price = 11, ![1].bid_price = 9]]
\* a later timestamp with no field changed
MdB == [MdA EXCEPT !.tm = 2]
\* the same timestamp with a field changed
MdC == [MdA EXCEPT !.trade.close = 12]
MdSnapshots == {ZeroMd, MdA, MdB, MdC}

\* PnL values of PositionManager: (realized, unrealized)
PnlValues == {<<0, 0>>, <<0, 5>>, <<3, 5>>}

(***************************************************************************)
(* State.                                                                  *)
(***************************************************************************)
VARIABLES
  user_,              \* const User* user_ : a user id, NoUser when null
  closed_,            \* bool closed_
  subs_,              \* security id -> [md: last-sent snapshot, cnt: ref count]
  sub_pnl_,           \* bool sub_pnl_
  test_algo_tokens_,  \* set of algo tokens
  ecs_, mds_,         \* adapter name -> last published connected()
  single_pnls_,       \* (sub-account, security) -> last sent (realized, unrealized)
  pnls_,              \* sub-account -> last sent (realized, unrealized)
  stateless,          \* transport_->stateless
  timer,              \* number of pending async_wait on timer_
  strand,             \* tasks posted to strand_, oldest first
  running,            \* the task the strand is executing and the frames it still sends
  wire,               \* the transport: how many frames it was given, the last one and the task that wrote it
  kTokens,            \* process-wide token table: token -> user id
  proc,               \* "up", "crashed" (memory fault) or "killed" (shutdown)
  eng,                \* state of the engines the session talks to
  last,               \* the last handler run: its input, the user and closed flag it found,
                      \* the frames it handed to Send, its engine calls
  cnt                 \* how many inputs of each kind have been delivered

vars == <<user_, closed_, subs_, sub_pnl_, test_algo_tokens_, ecs_, mds_, single_pnls_,
          pnls_, stateless, timer, strand, running, wire, kTokens, proc, eng, last, cnt>>

\* the per-session fields a handler may write
sessionState == <<user_, subs_, sub_pnl_, test_algo_tokens_, ecs_, mds_, single_pnls_, pnls_>>

EmptyMap == [x \in {} |-> 0]
Put(m, key, val) == [x \in DOMAIN m \cup {key} |-> IF x = key THEN val ELSE m[x]]
Erase(m, key) == [x \in DOMAIN m \ {key} |-> m[x]]

NoToken == 0
\* FindInMap(kTokens, token)
FindInMap(map, token) == IF token \in DOMAIN map THEN map[token] ELSE NoUser

(***************************************************************************)
(* A handler is computed on a context: the session fields, the token       *)
(* table, the engines, the frames handed to Send so far, the engine calls  *)
(* made so far, a pending exception, and how a read past the end of an     *)
(* array turns out in this call (ub).                                      *)
(***************************************************************************)
NoExc == [type |-> "none", what |-> ""]
NoCountdown == [on |-> FALSE, seconds |-> 0, interval |-> 0]

Ctx(ub) ==
  [user |-> user_, closed |-> closed_, subs |-> subs_, sub_pnl |-> sub_pnl_,
   tat |-> test_algo_tokens_, ecs |-> ecs_, mds |-> mds_, single_pnls |-> single_pnls_,
   pnls |-> pnls_, stateless |-> stateless, timer |-> timer, kTokens |-> kTokens,
   eng |-> eng, out |-> <<>>, calls |-> <<>>, exc |-> NoExc, proc |-> "up", ub |-> ub,
   countdown |-> NoCountdown]

\* Connection::Send(const std::string&) as a handler sees it: the frame is
\* handed to the session's writer.
Send(c, frame) == [c EXCEPT !.out = Append(@, frame)]
Call(c, call) == [c EXCEPT !.calls = Append(@, call)]
Throw(c, type, what) == [c EXCEPT !.exc = [type |-> type, what |-> what]]
Fault(c) == [c EXCEPT !.proc = "crashed"]
Failed(c) == c.exc.type # "none" \/ c.proc # "up"

\* json::operator[](size_type) on a non-const array (elements counted from 0):
\* a missing element is created as null.
AtMut(j, i) == IF i < Len(j) THEN j[i + 1] ELSE Null
\* json::operator[](size_type) const: std::vector::operator[] with no bounds
\* check; past the end the behaviour is undefined (c.ub).
At(c, j, i) == IF i < Len(j) THEN j[i + 1] ELSE c.ub

\* Get<T>(j), Get<std::string>, Get<double>, Get<bool>, GetNum: K receives the
\* payload, or std::runtime_error is thrown.
GetInt(c, x, K(_)) ==
  IF x.k = "segv" THEN Fault(c)
  ELSE IF ~is_number_integer(x) THEN Throw(c, "runtime_error", "wrong json value, expect integer")
  ELSE K(x.v)
GetString(c, x, K(_)) ==
  IF x.k = "segv" THEN Fault(c)
  ELSE IF ~is_string(x) THEN Throw(c, "runtime_error", "wrong json value, expect string")
  ELSE K(x.v)
GetDouble(c, x, K(_)) ==
  IF x.k = "segv" THEN Fault(c)
  ELSE IF ~is_number_float(x) THEN Throw(c, "runtime_error", "wrong json value, expect float")
  ELSE K(x.v)
GetBool(c, x, K(_)) ==
  IF x.k = "segv" THEN Fault(c)
  ELSE IF ~is_boolean(x) THEN Throw(c, "runtime_error", "wrong json value, expect bool")
  ELSE K(x.v)
\* GetNum returns a double: integers are converted (tenths)
GetNum(c, x, K(_)) ==
  IF x.k = "segv" THEN Fault(c)
  ELSE IF ~is_number(x) THEN Throw(c, "runtime_error", "wrong json value, expect number")
  ELSE IF is_number_float(x) THEN K(x.v) ELSE K(10 * x.v)

Strs(seq) == [i \in DOMAIN seq |-> S(seq[i])]

RECURSIVE FoldSeq(_, _, _)
\* a for loop over seq: acc = Op(acc, element), oldest first
FoldSeq(Op(_, _), acc, seq) ==
  IF seq = <<>> THEN acc ELSE FoldSeq(Op, Op(acc, Head(seq)), Tail(seq))

Min(set) == CHOOSE m \in set : \A x \in set : m <= x
RECURSIVE Sorted(_)
\* the elements of a set of integers in increasing order (iteration of a std::map)
Sorted(set) == IF set = {} THEN <<>> ELSE <<Min(set)>> \o Sorted(set \ {Min(set)})

(***************************************************************************)
(* The periodic publisher.                                                 *)
(***************************************************************************)
\* Connection::PublishMarketdata, the part that runs in the caller: when
\* closed_ nothing, else one more wait is pending on timer_.
PublishMarketdata(c) == IF c.closed THEN c ELSE [c EXCEPT !.timer = @ + 1]

\* Connection::PublishMarketStatus
PublishMarketStatus(c) ==
  LET v1 == c.eng.ec
      c1 == IF EcAdapter \notin DOMAIN c.ecs \/ c.ecs[EcAdapter] # v1
            THEN Send([c EXCEPT !.ecs = Put(@, EcAdapter, v1)],
                      <<S("market"), S("exchange"), S(EcAdapter), B(v1)>>)
            ELSE c
      v2 == c.eng.mdc
  IN IF MdAdapter \notin DOMAIN c1.mds \/ c1.mds[MdAdapter] # v2
     THEN Send([c1 EXCEPT !.mds = Put(@, MdAdapter, v2)],
               <<S("market"), S("data"), S(MdAdapter), B(v2)>>)
     ELSE c1

DepthNames(i) == [ask_price |-> <<"a", i>>, ask_size |-> <<"A", i>>,
                  bid_price |-> <<"b", i>>, bid_size |-> <<"B", i>>]
TradeNames == [open |-> "o", high |-> "h", low |-> "l", close |-> "c",
               qty |-> "q", volume |-> "v", vwap |-> "V"]

\* The sub-object j3 GetMarketData builds: the names of the fields it holds
\* ("t", the changed trade fields, the changed depth fields as <<letter, level>>).
ChangedFields(md, md0) ==
  {<<"t", 0>>}
  \cup {<<TradeNames[f], 0>> : f \in {g \in DOMAIN TradeNames : md.trade[g] # md0.trade[g]}}
  \cup UNION {{DepthNames(i - 1)[f] : f \in {g \in DOMAIN DepthNames(0) :
                                              md.depth[i][g] # md0.depth[i][g]}} : i \in 1..5}

\* a GetMarketData that compares the whole snapshots
GetMarketDataAnyChange(md, md0, id, j) ==
  IF md = md0 THEN j
  ELSE Append(j, A(<<I(id), O([tm |-> md.tm, fields |-> ChangedFields(md, md0)])>>))

\* GetMarketData(md, md0, id, j): j with the entry [id, j3] appended, or j
GetMarketData(md, md0, id, j) ==
  IF md.tm = md0.tm THEN j
  ELSE LET j3 == ChangedFields(md, md0)
       IN IF Cardinality(j3) = 0 THEN j
          ELSE Append(j, A(<<I(id), O([tm |-> md.tm, fields |-> j3])>>))

\* MarketDataManager::Get(id): the current snapshot of a security
MdGet(e, id) == IF id \in DOMAIN e.md THEN e.md[id] ELSE ZeroMd

\* the loop over subs_ of the timer handler: [c, j]
TickSubsStep(acc, id) ==
  LET md == MdGet(acc.c.eng, id)
  IN [c |-> [acc.c EXCEPT !.subs[id].md = md],
      j |-> GetMarketData(md, acc.c.subs[id].md, id, acc.j)]

\* the loop over PositionManager::sub_positions_ of the timer handler
TickSinglePnlStep(c, key) ==
  IF key[1] \notin UserById(c.user).sub_accounts THEN c
  ELSE LET pnl0 == IF key \in DOMAIN c.single_pnls THEN c.single_pnls[key] ELSE <<0, 0>>
           pos == c.eng.pos[key]
           x == pos[1] # pnl0[1]
           c1 == [c EXCEPT !.single_pnls = Put(@, key, pnl0)]
       IN IF x \/ pos[2] # pnl0[2]
          THEN Send([c1 EXCEPT !.single_pnls = Put(@, key, pos)],
                    <<S("pnl"), I(key[1]), I(key[2]), I(pos[2])>>
                      \o (IF x THEN <<I(pos[1])>> ELSE <<>>))
          ELSE c1

\* a loop over PositionManager::pnls_ that sends a changed pair and keeps the
\* pair it had
TickPnlStepKeepsOld(c, id) ==
  IF id \notin UserById(c.user).sub_accounts THEN c
  ELSE LET pnl0 == IF id \in DOMAIN c.pnls THEN c.pnls[id] ELSE <<0, 0>>
           pnl == c.eng.pnl[id]
           c1 == [c EXCEPT !.pnls = Put(@, id, pnl0)]
       IN IF pnl[1] # pnl0[1] \/ pnl[2] # pnl0[2]
          THEN Send(c1, <<S("Pnl"), I(id), S("now"), I(pnl[1]), I(pnl[2])>>)
          ELSE c1

\* the loop over PositionManager::pnls_ of the timer handler
TickPnlStep(c, id) ==
  IF id \notin UserById(c.user).sub_accounts THEN c
  ELSE LET pnl0 == IF id \in DOMAIN c.pnls THEN c.pnls[id] ELSE <<0, 0>>
           pnl == c.eng.pnl[id]
           c1 == [c EXCEPT !.pnls = Put(@, id, pnl0)]
       IN IF pnl[1] # pnl0[1] \/ pnl[2] # pnl0[2]
          THEN Send([c1 EXCEPT !.pnls = Put(@, id, pnl)],
                    <<S("Pnl"), I(id), S("now"), I(pnl[1]), I(pnl[2])>>)
          ELSE c1

\* keys of PositionManager::sub_positions_ in map order
PositionKeys == <<(<<1, 1>>), (<<2, 1>>)>>

\* the handler PublishMarketdata hands to timer_.async_wait
OnTimer(c) ==
  LET c1 == PublishMarketStatus(PublishMarketdata(c))
      r == FoldSeq(TickSubsStep, [c |-> c1, j |-> <<S("md")>>], Sorted(DOMAIN c1.subs))
      c2 == IF Len(r.j) > 1 THEN Send(r.c, r.j) ELSE r.c
  IN IF ~c2.sub_pnl THEN c2
     ELSE FoldSeq(TickPnlStep, FoldSeq(TickSinglePnlStep, c2, PositionKeys),
                  Sorted(DOMAIN c2.eng.pnl))

(***************************************************************************)
(* login and validate_user.                                                *)
(***************************************************************************)
\* LoginState with the disabled flag looked at before the password
LoginStateDisabledFirst(name, password) ==
  LET user == GetUser(name)
  IN IF user = NoUser THEN "unknown user"
     ELSE IF UserById(user).is_disabled THEN "disabled"
     ELSE IF password # UserById(user).password THEN "wrong password"
     ELSE "ok"

\* the state OnLogin computes from the credentials
LoginState(name, password) ==
  LET user == GetUser(name)
  IN IF user = NoUser THEN "unknown user"
     ELSE IF password # UserById(user).password THEN "wrong password"
     ELSE IF UserById(user).is_disabled THEN "disabled"
     ELSE "ok"

\* boost::uuids::to_string(kUuidGen()): a token no earlier call returned
NewToken(map) == Cardinality(DOMAIN map) + 1

ConnectionOk(user, token) ==
  <<S("connection"), S("ok"),
    O([session |-> "session", userId |-> user, startTime |-> "kStartTime",
       sessionToken |-> token, securitiesCheckSum |-> "check_sum"])>>

SendSubAccount(c, id) == Send(c, <<S("sub_account"), I(id), S(SubAccountName(id))>>)

RECURSIVE UserSubAccountFrames(_)
\* one frame per (user, sub-account) of AccountManager::users_
UserSubAccountFrames(ids) ==
  IF ids = <<>> THEN <<>>
  ELSE LET accs == Sorted(UserById(Head(ids)).sub_accounts)
       IN [i \in DOMAIN accs |->
             <<S("user_sub_account"), I(Head(ids)), I(accs[i]), S(SubAccountName(accs[i]))>>]
          \o UserSubAccountFrames(Tail(ids))

SendAll(c, frames) == [c EXCEPT !.out = @ \o frames]

\* the reference data OnLogin exports once the user is attached
ExportReferenceData(c, user) ==
  LET c1 == FoldSeq(SendSubAccount, c, Sorted(UserById(user).sub_accounts))
      c2 == IF UserById(user).is_admin
            THEN SendAll(c1, UserSubAccountFrames(Sorted(UserIds))) ELSE c1
      c3 == SendAll(c2, [i \in 1..Cardinality(BrokerAccounts) |->
                   LET b == CHOOSE x \in BrokerAccounts : TRUE
                   IN <<S("broker_account"), I(b.id), S(b.name)>>])
      c4 == SendAll(c3, [i \in 1..Cardinality(AlgoNames) |->
                   <<S("algo_def"), S(CHOOSE x \in AlgoNames : TRUE)>>])
  IN IF c4.eng.files # {} THEN Send(c4, <<S("algoFiles"), O(c4.eng.files)>>) ELSE c4

\* an OnLogin that starts the publisher at every successful login
OnLoginStartsPublisherAgain(c, action, j) ==
  GetString(c, At(c, j, 1), LAMBDA name :
  GetString(c, At(c, j, 2), LAMBDA pw :
    LET password == sha1(pw)
        user == GetUser(name)
        state == LoginState(name, password)
    IN IF action = "validate_user"
       THEN GetInt(c, At(c, j, 3), LAMBDA token :
              Send(c, <<S("user_validation"), I(IF state = "ok" THEN user ELSE 0), I(token)>>))
       ELSE IF state # "ok"
       THEN Send(c, <<S("connection"), S(state)>>)
       ELSE LET token == NewToken(c.kTokens)
                c1 == Send([c EXCEPT !.kTokens = Put(@, token, user)],
                           ConnectionOk(user, token))
            IN IF c1.stateless THEN c1
               ELSE IF c1.user = NoUser
               THEN ExportReferenceData(PublishMarketdata([c1 EXCEPT !.user = user]), user)
               ELSE PublishMarketdata(c1)))

\* Connection::OnLogin
OnLogin(c, action, j) ==
  GetString(c, At(c, j, 1), LAMBDA name :
  GetString(c, At(c, j, 2), LAMBDA pw :
    LET password == sha1(pw)
        user == GetUser(name)
        state == LoginState(name, password)
    IN IF action = "validate_user"
       THEN GetInt(c, At(c, j, 3), LAMBDA token :
              Send(c, <<S("user_validation"), I(IF state = "ok" THEN user ELSE 0), I(token)>>))
       ELSE IF state # "ok"
       THEN Send(c, <<S("connection"), S(state)>>)
       ELSE LET token == NewToken(c.kTokens)
                c1 == Send([c EXCEPT !.kTokens = Put(@, token, user)],
                           ConnectionOk(user, token))
            IN IF c1.user = NoUser /\ ~c1.stateless
               THEN ExportReferenceData(PublishMarketdata([c1 EXCEPT !.user = user]), user)
               ELSE c1))

(***************************************************************************)
(* Encoding of a confirmation, Connection::Send(const Confirmation&, bool):*)
(* the frame, or nothing when the confirmation is dropped.                 *)
(***************************************************************************)
StatusOf(exec_type) ==
  CASE exec_type = "kUnconfirmedNew" -> "unconfirmed"
    [] exec_type = "kPendingNew" -> "pending"
    [] exec_type = "kPendingCancel" -> "pending_cancel"
    [] exec_type = "kNew" -> "new"
    [] exec_type = "kCanceled" -> "cancelled"
    [] exec_type = "kFilled" -> "filled"
    [] exec_type = "kPartiallyFilled" -> "partial"
    [] exec_type = "kRejected" -> "new_rejected"
    [] exec_type = "kCancelRejected" -> "cancel_rejected"
    [] exec_type = "kRiskRejected" -> "risk_rejected"
    [] OTHER -> ""

EncodeConfirmation(cm, offline) ==
  LET head == <<S(IF offline THEN "Order" ELSE "order"), S("order id"), S("transaction_time"),
                I(cm.seq), S(StatusOf(cm.exec_type))>>
      snapshot == <<S("sec"), S("algo_id"), S("user"), I(cm.acc)>>
  IN CASE cm.exec_type = "kUnconfirmedNew" ->
            <<head \o snapshot \o <<S("broker_account"), S("qty, price, side, type, tif")>>>>
       [] cm.exec_type \in {"kPendingNew", "kPendingCancel", "kCanceled"} -> <<head>>
       [] cm.exec_type = "kNew" -> <<head \o <<S("order_id")>>>>
       [] cm.exec_type \in {"kFilled", "kPartiallyFilled"} ->
            IF cm.exec_trans_type = "kTransNew"
            THEN <<head \o <<S("last_shares, last_px, exec_id"), S("new")>>>>
            ELSE IF cm.exec_trans_type = "kTransCancel"
            THEN <<head \o <<S("last_shares, last_px, exec_id"), S("cancel")>>>>
            ELSE <<>>
       [] cm.exec_type \in {"kRejected", "kCancelRejected"} -> <<head \o <<S("text")>>>>
       [] cm.exec_type = "kRiskRejected" ->
            <<head \o <<S("text")>> \o snapshot \o <<S("qty, price, side, type, tif")>>>>
       [] OTHER -> <<>>

(***************************************************************************)
(* The verbs of OnMessageSync.                                             *)
(***************************************************************************)
ErrorFrame(context, subfield, text) == <<S("error"), S(context), S(subfield), S(text)>>

\* bod: one frame per start-of-day position the user may see
BodStep(c, key) ==
  IF ~UserById(c.user).is_admin /\ key[1] \notin UserById(c.user).sub_accounts THEN c
  ELSE Send(c, <<S("bod"), I(key[1]), I(key[2]), S("qty, avg_px, realized_pnl, broker_account_id, tm")>>)
OnBod(c) == FoldSeq(BodStep, c, BodKeys)

\* reconnect: the market-data adapter of that name, else the exchange one
OnReconnect(c, j) ==
  GetString(c, AtMut(j, 1), LAMBDA name :
    IF name = MdAdapter THEN Call(c, [fn |-> "MarketDataAdapter::Reconnect", arg |-> name])
    ELSE IF name = EcAdapter THEN Call(c, [fn |-> "ExchangeConnectivityAdapter::Reconnect", arg |-> name])
    ELSE c)

\* Connection::OnSecurities
OnSecurities(c, j) ==
  LET secs == Sorted(SecurityIds)
      frames == [i \in DOMAIN secs |->
                   <<S("security"), I(secs[i]),
                     S(IF UserById(c.user).is_admin THEN "admin record" ELSE "record")>>]
  IN IF c.stateless THEN Send(c, [i \in DOMAIN frames |-> A(frames[i])])
     ELSE Send(SendAll(c, frames), <<S("securities"), S("complete")>>)

\* SubAccount::GetBroker(sec): the broker account of the pair, 0 when none
GetBroker(acc, sec) == IF acc = 1 THEN 7 ELSE 0

\* PositionManager::Get(acc, sec): the position of the pair, zero when none
PositionOf(e, acc, sec) == IF <<acc, sec>> \in DOMAIN e.pos THEN e.pos[<<acc, sec>>] ELSE <<0, 0>>

\* the json `out` OnPosition composes from the position p it looked up
PositionRecord(p) ==
  <<S("position"), O([realized_pnl |-> p[1], unrealized_pnl |-> p[2],
                      others |-> "qty, avg_px, total and outstanding qty"])>>

\* Connection::OnPosition; `out` is composed and j is sent
OnPosition(c, j, msg) ==
  GetInt(c, At(c, j, 1), LAMBDA security_id :
    IF ~SecurityKnown(security_id)
    THEN Send(c, ErrorFrame("position", "security id", "Invalid security id: "))
    ELSE GetString(c, At(c, j, 2), LAMBDA acc_name :
      LET acc == GetSubAccount(acc_name)
          NoBroker == Send(c, ErrorFrame("position", "account name",
                         "Can not find broker for this account and security pair"))
          \* the reply is the inbound array j, not the composed object `out`
          Reply == Send(c, j)
      IN IF acc = NoAccount
         THEN Send(c, ErrorFrame("position", "account name", "Invalid account name: "))
         ELSE IF Len(j) > 3
         THEN GetBool(c, At(c, j, 3), LAMBDA broker :
                IF broker /\ GetBroker(acc, security_id) = 0 THEN NoBroker ELSE Reply)
         ELSE Reply))

\* AlgoManager::LoadStore(seq, conn) and GlobalOrderBook::LoadStore(seq, conn):
\* the stored events above seq are sent with the capitalized verb
ReplayAlgos(c, seq) ==
  LET ev == SelectSeq(StoredAlgoEvents, LAMBDA e : e.seq > seq)
  IN SendAll(Call(c, [fn |-> "AlgoManager::LoadStore", arg |-> seq]),
             [i \in DOMAIN ev |-> <<S("Algo"), I(ev[i].seq)>>])
ReplayOrders(c, seq) ==
  LET cm == SelectSeq(StoredConfirmations, LAMBDA e : e.seq > seq)
  IN FoldSeq(LAMBDA c1, e : SendAll(c1, EncodeConfirmation(e, TRUE)),
             Call(c, [fn |-> "GlobalOrderBook::LoadStore", arg |-> seq]), cm)

\* an offline that sends the terminators of the orders ahead of their replay
OnOfflineCompleteFirst(c, j) ==
  LET Orders(c1) ==
        GetInt(c1, AtMut(j, 1), LAMBDA seq_confirmation :
          ReplayOrders(Send(Send(c1, <<S("offline_orders"), S("complete")>>),
                            <<S("offline"), S("complete")>>),
                       seq_confirmation))
  IN IF Len(j) > 2
     THEN GetInt(c, AtMut(j, 2), LAMBDA seq_algo :
            Orders(Send(ReplayAlgos(c, seq_algo), <<S("offline_algos"), S("complete")>>)))
     ELSE Orders(c)

\* offline
OnOffline(c, j) ==
  LET Orders(c1) ==
        GetInt(c1, AtMut(j, 1), LAMBDA seq_confirmation :
          Send(Send(ReplayOrders(c1, seq_confirmation),
                    <<S("offline_orders"), S("complete")>>),
               <<S("offline"), S("complete")>>))
  IN IF Len(j) > 2
     THEN GetInt(c, AtMut(j, 2), LAMBDA seq_algo :
            Orders(Send(ReplayAlgos(c, seq_algo), <<S("offline_algos"), S("complete")>>)))
     ELSE Orders(c)

\* cancel
OnCancel(c, j) ==
  GetInt(c, AtMut(j, 1), LAMBDA id :
    IF id \notin KnownOrderIds
    THEN Send(c, ErrorFrame("cancel", "order id", "Invalid order id"))
    ELSE Call(c, [fn |-> "ExchangeConnectivityManager::Cancel", arg |-> id]))

\* GetOrderSide(side_str, &side) recognizes the side
OrderSides == {"buy", "sell", "short"}

\* a type parser that takes the stop types for limit orders
OrderTypeStopAsLimit(type_str) ==
  IF type_str \in {"market", "MARKET"} THEN "kMarket"
  ELSE IF type_str \in {"otc", "OTC"} THEN "kOTC"
  ELSE "kLimit"

\* the type and the time in force OnOrder derives (strcasecmp), the Contract's
\* defaults when the string is none of the known ones
OrderTypeOf(type_str) ==
  IF type_str \in {"market", "MARKET"} THEN "kMarket"
  ELSE IF type_str \in {"stop", "STOP"} THEN "kStop"
  ELSE IF type_str \in {"stop limit", "STOP LIMIT"} THEN "kStopLimit"
  ELSE IF type_str \in {"otc", "OTC"} THEN "kOTC"
  ELSE "kLimit"
TifOf(tif_str) ==
  IF tif_str \in {"GTC", "gtc"} THEN "kGoodTillCancel"
  ELSE IF tif_str \in {"OPG", "opg"} THEN "kAtTheOpening"
  ELSE IF tif_str \in {"IOC", "ioc"} THEN "kImmediateOrCancel"
  ELSE IF tif_str \in {"FOK", "fok"} THEN "kFillOrKill"
  ELSE IF tif_str \in {"GTX", "gtx"} THEN "kGoodTillCrossing"
  ELSE "kDay"

\* Connection::OnOrder
OnOrder(c, j, msg) ==
  GetInt(c, At(c, j, 1), LAMBDA security_id :
  GetString(c, At(c, j, 2), LAMBDA sub_account :
    LET acc == GetSubAccount(sub_account)
    IN IF acc = NoAccount
       THEN Send(c, ErrorFrame("order", "sub_account", "Invalid sub_account: "))
       ELSE
  GetString(c, At(c, j, 3), LAMBDA side_str :
  GetString(c, At(c, j, 4), LAMBDA type_str :
  GetString(c, At(c, j, 5), LAMBDA tif_str :
  GetNum(c, At(c, j, 6), LAMBDA qty :
  GetNum(c, At(c, j, 7), LAMBDA px :
  GetNum(c, At(c, j, 8), LAMBDA stop_price :
    LET type == OrderTypeOf(type_str)
    IN IF ~SecurityKnown(security_id)
       THEN Send(c, ErrorFrame("order", "security id", "Invalid security id: "))
       ELSE IF side_str \notin OrderSides
       THEN Send(c, ErrorFrame("order", "side", "Invalid side: "))
       ELSE IF stop_price <= 0 /\ type \in {"kStop", "kStopLimit"}
       THEN Send(c, ErrorFrame("order", "stop price", "Miss stop price for stop order"))
       ELSE Call(c, [fn |-> "ExchangeConnectivityManager::Place",
                     arg |-> [user |-> c.user, sec |-> security_id, sub_account |-> acc,
                              side |-> side_str, type |-> type, tif |-> TifOf(tif_str),
                              qty |-> qty, price |-> px, stop_price |-> stop_price]])))))))))

(***************************************************************************)
(* Algo parameters.  A JSON object is the sequence of its items            *)
(* [key, val] in key order.  A parsed value is [t, ...]: a scalar, a       *)
(* security tuple with its sub-account, or a vector of parsed scalars.     *)
(***************************************************************************)
NoErr == ""

\* one item of the object ParseParamScalar reads a SecurityTuple from
TupleItem(acc, it) ==
  IF acc.err # NoErr THEN acc
  ELSE IF it.key = "qty"
  THEN IF ~is_number(it.val) THEN [acc EXCEPT !.err = "wrong json value, expect number"]
       ELSE [acc EXCEPT !.qty = IF is_number_float(it.val) THEN it.val.v ELSE 10 * it.val.v]
  ELSE IF it.key = "side"
  THEN IF ~is_string(it.val) THEN [acc EXCEPT !.err = "wrong json value, expect string"]
       ELSE IF it.val.v \notin OrderSides THEN [acc EXCEPT !.err = "Unknown order side: "]
       ELSE [acc EXCEPT !.side = it.val.v]
  ELSE IF it.key = "src"
  THEN IF ~is_string(it.val) THEN [acc EXCEPT !.err = "wrong json value, expect string"]
       ELSE [acc EXCEPT !.src = it.val.v]
  ELSE IF it.key = "sec"
  THEN IF ~is_number_integer(it.val) THEN [acc EXCEPT !.err = "wrong json value, expect integer"]
       ELSE IF ~SecurityKnown(it.val.v) THEN [acc EXCEPT !.err = "Unknown security id: "]
       ELSE [acc EXCEPT !.sec = it.val.v]
  ELSE IF it.key = "acc"
  THEN IF is_number_integer(it.val)
       THEN IF it.val.v \notin SubAccountIds THEN [acc EXCEPT !.err = "Unknown account id: "]
            ELSE [acc EXCEPT !.acc = it.val.v]
       ELSE IF is_string(it.val)
       THEN IF GetSubAccount(it.val.v) = NoAccount THEN [acc EXCEPT !.err = "Unknown account: "]
            ELSE [acc EXCEPT !.acc = GetSubAccount(it.val.v)]
       ELSE acc
  ELSE acc

NoValue == [t |-> "none", acc |-> NoAccount]

\* the checks ParseParamScalar makes on the SecurityTuple it has read
CheckTuple(s) ==
  IF s.err # NoErr THEN [err |-> s.err, val |-> NoValue]
  ELSE IF s.qty <= 0 THEN [err |-> "Empty quantity", val |-> NoValue]
  ELSE IF s.side = "" THEN [err |-> "Empty side", val |-> NoValue]
  ELSE IF s.sec = 0 THEN [err |-> "Empty security", val |-> NoValue]
  ELSE IF s.acc = NoAccount THEN [err |-> "Empty account", val |-> NoValue]
  ELSE [err |-> NoErr, val |-> [t |-> "SecurityTuple", acc |-> s.acc]]

\* ParseParamScalar: [err, val]
ParseParamScalar(j) ==
  IF is_number_float(j) \/ is_number_integer(j) \/ is_boolean(j) \/ is_string(j)
  THEN [err |-> NoErr, val |-> [t |-> j.k, acc |-> NoAccount]]
  ELSE IF is_object(j)
  THEN CheckTuple(FoldSeq(TupleItem,
                          [err |-> NoErr, src |-> "", sec |-> 0, acc |-> NoAccount,
                           side |-> "", qty |-> 0], j.v))
  ELSE [err |-> NoErr, val |-> NoValue]

\* the first element that failed to parse throws, else the elements parsed
FirstError(el, Ok(_)) ==
  IF \E i \in DOMAIN el : el[i].err # NoErr
  THEN [err |-> el[Min({i \in DOMAIN el : el[i].err # NoErr})].err, val |-> NoValue]
  ELSE Ok(el)

\* ParseParamValue: [err, val]; a vector is [t |-> "vector", elems]
ParseParamValue(j) ==
  IF is_array(j)
  THEN FirstError([i \in DOMAIN j.v |-> ParseParamScalar(j.v[i])],
                  LAMBDA el : [err |-> NoErr,
                               val |-> [t |-> "vector", acc |-> NoAccount,
                                        elems |-> [i \in DOMAIN el |-> el[i].val]]])
  ELSE ParseParamScalar(j)

\* params.items(): the items of an object, the elements of an array under
\* their index, nothing for null
Items(j) ==
  IF is_object(j) THEN j.v
  ELSE IF is_array(j) THEN [i \in DOMAIN j.v |-> [key |-> i, val |-> j.v[i]]]
  ELSE IF j.k = "null" THEN <<>>
  ELSE <<[key |-> "", val |-> j]>>

\* the loop of ParseParams over the items
ParseItems(it) ==
  FirstError([i \in DOMAIN it |-> ParseParamValue(it[i].val)],
             LAMBDA el : [err |-> NoErr,
                          val |-> [i \in DOMAIN it |-> [key |-> it[i].key, val |-> el[i].val]]])

\* ParseParams: [err, val], val the sequence of [key, val] parsed
ParseParams(j) == ParseItems(Items(j))

\* AlgoManager::Spawn: an algo of a registered name starts under the token
Spawn(c, params, algo_name, token) ==
  Call([c EXCEPT !.eng.algos = IF algo_name \in AlgoNames THEN @ \cup {token} ELSE @],
       [fn |-> "AlgoManager::Spawn",
        arg |-> [params |-> params, name |-> algo_name, user |-> c.user, token |-> token]])

InvalidParams(c, token, what) ==
  Send(c, <<S("error"), S("algo"), S("invalid params"), S(token), S(what)>>)

\* the security tuples among the values of a parameter map that OnAlgo checks
CheckedTuples(map) == {i \in DOMAIN map : map[i].val.t = "SecurityTuple"}

\* OnAlgo, action "new", once the parameters are parsed
NewAlgo(c, params, algo_name, token) ==
  IF params.err # NoErr THEN InvalidParams(c, token, params.err)
  ELSE IF \E i \in CheckedTuples(params.val) :
            params.val[i].val.acc \notin UserById(c.user).sub_accounts
  THEN InvalidParams(c, token, "No permission to trade with account: ")
  ELSE IF algo_name \notin AlgoNames
  THEN InvalidParams(Spawn(c, params.val, algo_name, token), token, "Unknown algo name: ")
  ELSE Spawn(c, params.val, algo_name, token)

\* OnAlgo, action "modify", once the parameters are parsed
ModifyAlgo(c, params, x) ==
  IF params.err # NoErr THEN Throw(c, "runtime_error", params.err)
  ELSE IF is_string(x) THEN Call(c, [fn |-> "AlgoManager::Modify", arg |-> x.v])
  ELSE GetInt(c, x, LAMBDA id : Call(c, [fn |-> "AlgoManager::Modify", arg |-> id]))

\* OnAlgo, action "cancel"
CancelAlgo(c, x) ==
  IF x.k = "segv" THEN Fault(c)
  ELSE IF is_string(x) THEN Call(c, [fn |-> "AlgoManager::Stop", arg |-> x.v])
  ELSE GetInt(c, x, LAMBDA id : Call(c, [fn |-> "AlgoManager::Stop", arg |-> id]))

\* OnAlgo, actions "new" and "test", once the token is known new; p is j[4]
StartAlgo(c, action, algo_name, token, p) ==
  IF p.k = "segv"
  THEN Fault(IF action = "test" /\ token # "" THEN [c EXCEPT !.tat = @ \cup {token}] ELSE c)
  ELSE IF action = "new" THEN NewAlgo(c, ParseParams(p), algo_name, token)
  ELSE Spawn(IF token # "" THEN [c EXCEPT !.tat = @ \cup {token}] ELSE c,
             <<>>, algo_name, token)

\* an OnAlgo that does not look the token up before it starts the algo
OnAlgoNoDuplicateCheck(c, j, msg) ==
  GetString(c, At(c, j, 1), LAMBDA action :
    IF action = "cancel" THEN CancelAlgo(c, At(c, j, 2))
    ELSE IF action = "modify"
    THEN IF At(c, j, 3).k = "segv" THEN Fault(c)
         ELSE ModifyAlgo(c, ParseParams(At(c, j, 3)), At(c, j, 2))
    ELSE IF action \in {"new", "test"}
    THEN GetString(c, At(c, j, 2), LAMBDA algo_name :
         GetString(c, At(c, j, 3), LAMBDA token :
           StartAlgo(c, action, algo_name, token, At(c, j, 4))))
    ELSE Send(c, <<S("error"), S("algo"), S("invalid action"), S(action)>>))

\* Connection::OnAlgo
OnAlgo(c, j, msg) ==
  GetString(c, At(c, j, 1), LAMBDA action :
    IF action = "cancel" THEN CancelAlgo(c, At(c, j, 2))
    ELSE IF action = "modify"
    THEN IF At(c, j, 3).k = "segv" THEN Fault(c)
         ELSE ModifyAlgo(c, ParseParams(At(c, j, 3)), At(c, j, 2))
    ELSE IF action \in {"new", "test"}
    THEN GetString(c, At(c, j, 2), LAMBDA algo_name :
         GetString(c, At(c, j, 3), LAMBDA token :
           IF token \in c.eng.algos
           THEN Send(c, ErrorFrame("algo", "duplicate token", token))
           ELSE StartAlgo(c, action, algo_name, token, At(c, j, 4))))
    ELSE Send(c, <<S("error"), S("algo"), S("invalid action"), S(action)>>))

\* GetTime() and the records of the files pnl-<id> under kStorePath
Now == 200000
PnlHistory(id) == IF id = 1 THEN <<100000, 150000>> ELSE <<>>

\* the loop of pnl over PositionManager::pnls_
PnlStep(acc, id) ==
  IF id \notin UserById(acc.c.user).sub_accounts THEN acc
  ELSE LET j2 == SelectSeq(PnlHistory(id), LAMBDA tm : tm > acc.tm0)
       IN IF Len(j2) > 0
          THEN [acc EXCEPT !.c = Send(@, <<S("Pnl"), I(id), A([i \in DOMAIN j2 |-> I(j2[i])])>>)]
          ELSE acc

\* pnl
OnPnl(c, j) ==
  LET Body(since) ==
        LET floor == Now - 24 * 3600
            tm0 == IF floor > since THEN floor ELSE since
            r == FoldSeq(PnlStep, [c |-> c, tm0 |-> tm0], Sorted(DOMAIN c.eng.pnl))
        IN [r.c EXCEPT !.sub_pnl = TRUE]
  IN IF Len(j) >= 2 THEN GetInt(c, AtMut(j, 1), LAMBDA tm : Body(tm)) ELSE Body(0)

\* one id of sub: [c, jout]
SubStep(acc, x) ==
  IF Failed(acc.c) THEN acc
  ELSE IF ~is_number_integer(x)
  THEN [acc EXCEPT !.c = Throw(@, "runtime_error", "wrong json value, expect integer")]
  ELSE LET id == x.v
           \* auto& s = subs_[id] inserts a zero entry when there is none
           subs0 == IF id \in DOMAIN acc.c.subs THEN acc.c.subs
                    ELSE Put(acc.c.subs, id, [md |-> ZeroMd, cnt |-> 0])
       IN IF SecurityKnown(id)
          THEN LET md == MdGet(acc.c.eng, id)
               IN [c |-> [acc.c EXCEPT !.subs = [subs0 EXCEPT ![id] =
                                                   [md |-> md, cnt |-> subs0[id].cnt + 1]]],
                   jout |-> GetMarketData(md, subs0[id].md, id, acc.jout)]
          ELSE [acc EXCEPT !.c.subs = subs0]

\* sub
OnSub(c, j) ==
  LET r == FoldSeq(SubStep, [c |-> c, jout |-> <<S("md")>>], Tail(j))
  IN IF Failed(r.c) THEN r.c
     ELSE IF Len(r.jout) > 1 THEN Send(r.c, r.jout) ELSE r.c

\* an unsub that decrements a count of 1 to 0 and keeps the entry
UnsubStepKeepsZero(acc, x) ==
  IF Failed(acc.c) \/ acc.returned THEN acc
  ELSE IF ~is_number_integer(x)
  THEN [acc EXCEPT !.c = Throw(@, "runtime_error", "wrong json value, expect integer")]
  ELSE LET id == x.v
       IN IF id \notin DOMAIN acc.c.subs THEN [acc EXCEPT !.returned = TRUE]
          ELSE IF acc.c.subs[id].cnt - 1 < 0
          THEN [acc EXCEPT !.c.subs = Erase(@, id)]
          ELSE [acc EXCEPT !.c.subs[id].cnt = @ - 1]

\* one id of unsub: [c, returned]
UnsubStep(acc, x) ==
  IF Failed(acc.c) \/ acc.returned THEN acc
  ELSE IF ~is_number_integer(x)
  THEN [acc EXCEPT !.c = Throw(@, "runtime_error", "wrong json value, expect integer")]
  ELSE LET id == x.v
       IN IF id \notin DOMAIN acc.c.subs THEN [acc EXCEPT !.returned = TRUE]
          ELSE IF acc.c.subs[id].cnt - 1 <= 0
          THEN [acc EXCEPT !.c.subs = Erase(@, id)]
          ELSE [acc EXCEPT !.c.subs[id].cnt = @ - 1]

\* unsub
OnUnsub(c, j) == FoldSeq(UnsubStep, [c |-> c, returned |-> FALSE], Tail(j)).c

\* algoFile, deleteAlgoFile, saveAlgoFile on the files under kAlgoPath
OnAlgoFile(c, action, j) ==
  GetString(c, AtMut(j, 1), LAMBDA fn :
    IF fn \in c.eng.files
    THEN Send(c, <<S(action), S(fn), S("contents")>>)
    ELSE Send(c, <<S(action), S(fn), Null, S("Not found")>>))
OnDeleteAlgoFile(c, action, j) ==
  GetString(c, AtMut(j, 1), LAMBDA fn :
    Send([c EXCEPT !.eng.files = @ \ {fn}], <<S(action), S(fn)>>))
OnSaveAlgoFile(c, action, j) ==
  GetString(c, AtMut(j, 1), LAMBDA fn :
  GetString(c, AtMut(j, 2), LAMBDA text :
    Send([c EXCEPT !.eng.files = @ \cup {fn}], <<S(action), S(fn)>>)))

\* int = double: toward zero (tenths to whole)
Trunc(tenths) == IF tenths >= 0 THEN tenths \div 10 ELSE -((-tenths) \div 10)

\* a shutdown that does not ask whether the user is an admin
OnShutdownAnyUser(c, j) ==
  LET Start(seconds, interval) ==
        Call(Call([c EXCEPT !.countdown = [on |-> TRUE, seconds |-> seconds,
                                           interval |-> interval],
                            !.eng.stopped = TRUE],
                  [fn |-> "Server::Stop", arg |-> 0]),
             [fn |-> "AlgoManager::Stop", arg |-> 0])
      Grace(n) == IF n > 3 * 10 THEN Trunc(n) ELSE 3
  IN IF Len(j) > 1
     THEN GetNum(c, AtMut(j, 1), LAMBDA n :
            IF Len(j) > 2
            THEN GetNum(c, AtMut(j, 2), LAMBDA m :
                   Start(Grace(n), IF m > 10 /\ m < 10 * Grace(n) THEN m ELSE 10))
            ELSE Start(Grace(n), 10))
     ELSE Start(3, 10)

\* shutdown up to its countdown: the grace seconds (int) and the interval (tenths)
OnShutdown(c, j) ==
  IF ~UserById(c.user).is_admin THEN c
  ELSE LET Start(seconds, interval) ==
             Call(Call([c EXCEPT !.countdown = [on |-> TRUE, seconds |-> seconds,
                                                interval |-> interval],
                                 !.eng.stopped = TRUE],
                       [fn |-> "Server::Stop", arg |-> 0]),
                  [fn |-> "AlgoManager::Stop", arg |-> 0])
           Grace(n) == IF n > 3 * 10 THEN Trunc(n) ELSE 3
       IN IF Len(j) > 1
          THEN GetNum(c, AtMut(j, 1), LAMBDA n :
                 IF Len(j) > 2
                 THEN GetNum(c, AtMut(j, 2), LAMBDA m :
                        Start(Grace(n), IF m > 10 /\ m < 10 * Grace(n) THEN m ELSE 10))
                 ELSE Start(Grace(n), 10))
          ELSE Start(3, 10)

(***************************************************************************)
(* Inbound messages: the heartbeat text, a text that is not JSON, or the   *)
(* text of a JSON value.                                                   *)
(***************************************************************************)
Heartbeat == [k |-> "h", v |-> 0]
Unparsable == [k |-> "unparsable", v |-> 0]
Text(j) == [k |-> "json", v |-> j]
\* a JSON array of strings and integers written as a TLA+ tuple of values
Msg(elems) == Text(A(elems))

LoginFirst == ErrorFrame("msg", "action", "you must login first")

\* the three catch clauses of OnMessageSync
Catch(c, msg) ==
  IF c.proc # "up" \/ c.exc.type = "none" THEN c
  ELSE LET c0 == [c EXCEPT !.exc = NoExc]
       IN IF c.exc.type = "parse_error"
          THEN Send(c0, <<S("error"), S("json"), Raw(msg), S("invalid json string")>>)
          ELSE IF c.exc.type = "json_exception"
          THEN Send(c0, <<S("error"), S("json"), Raw(msg), S("json error: type_error")>>)
          ELSE Send(c0, <<S("error"), S("Connection::OnMessage"), Raw(msg), S(c.exc.what)>>)

\* the dispatch on the verb, after the login gate
Dispatch(c, action, j, msg) ==
  IF action \in {"login", "validate_user"} THEN OnLogin(c, action, j)
  ELSE IF action = "bod" THEN OnBod(c)
  ELSE IF action = "reconnect" THEN OnReconnect(c, j)
  ELSE IF action = "securities" THEN OnSecurities(c, j)
  ELSE IF action = "position" THEN OnPosition(c, j, msg)
  ELSE IF action = "offline" THEN OnOffline(c, j)
  ELSE IF action = "shutdown" THEN OnShutdown(c, j)
  ELSE IF action = "cancel" THEN OnCancel(c, j)
  ELSE IF action = "order" THEN OnOrder(c, j, msg)
  ELSE IF action = "algo" THEN OnAlgo(c, j, msg)
  ELSE IF action = "pnl" THEN OnPnl(c, j)
  ELSE IF action = "sub" THEN OnSub(c, j)
  ELSE IF action = "unsub" THEN OnUnsub(c, j)
  ELSE IF action = "algoFile" THEN OnAlgoFile(c, action, j)
  ELSE IF action = "deleteAlgoFile" THEN OnDeleteAlgoFile(c, action, j)
  ELSE IF action = "saveAlgoFile" THEN OnSaveAlgoFile(c, action, j)
  ELSE c

\* a gate that lets the verb cancel through as it lets login through
GateOpenForCancel(c, action, j, msg, token) ==
  IF action \notin {"login", "cancel"} /\ c.user = NoUser
  THEN LET c1 == [c EXCEPT !.user = FindInMap(c.kTokens, token)]
       IN IF c1.user = NoUser THEN Send(c1, LoginFirst)
          ELSE Dispatch(c1, action, j, msg)
  ELSE Dispatch(c, action, j, msg)

\* the login gate: user_ is looked up from the token when it is null
Gate(c, action, j, msg, token) ==
  IF action # "login" /\ c.user = NoUser
  THEN LET c1 == [c EXCEPT !.user = FindInMap(c.kTokens, token)]
       IN IF c1.user = NoUser THEN Send(c1, LoginFirst)
          ELSE Dispatch(c1, action, j, msg)
  ELSE Dispatch(c, action, j, msg)

\* Connection::OnMessageSync(msg, token)
OnMessageSync(c, msg, token) ==
  IF msg.k = "h" THEN Send(c, <<Raw("h")>>)
  ELSE Catch(
    IF msg.k = "unparsable" THEN Throw(c, "parse_error", "parse error")
    ELSE IF ~is_array(msg.v) /\ msg.v.k # "null"
    THEN Throw(c, "json_exception", "cannot use operator[] with a numeric argument")
    ELSE LET j == IF is_array(msg.v) THEN msg.v.v ELSE <<>>
         IN GetString(c, AtMut(j, 0), LAMBDA action :
              IF action = ""
              THEN Send(c, ErrorFrame("msg", "action", "empty action"))
              ELSE Gate(c, action, j, msg, token)),
    msg)

(***************************************************************************)
(* Inputs.                                                                 *)
(***************************************************************************)
LoginAlice == Msg(<<S("login"), S("alice"), S("pw")>>)
LoginBob == Msg(<<S("login"), S("bob"), S("pw")>>)
OrderOk == Msg(<<S("order"), I(1), S("desk1"), S("buy"), S("limit"), S("Day"), I(100), F(100), I(0)>>)

AuthMsgs == {
  LoginAlice, LoginBob,
  Msg(<<S("login"), S("alice"), S("bad")>>),
  Msg(<<S("login"), S("nobody"), S("pw")>>),
  Msg(<<S("login"), S("carol"), S("pw")>>),
  Msg(<<S("login"), S("carol"), S("bad")>>),
  Msg(<<S("validate_user"), S("alice"), S("pw"), I(7)>>),
  Msg(<<S("validate_user"), S("alice"), S("bad"), I(7)>>) }

MalformedMsgs == {
  Unparsable, Text(O(<<>>)), Text(I(1)), Text(Null), Msg(<<>>), Msg(<<I(1)>>), Msg(<<S("")>>),
  Msg(<<S("login")>>), Msg(<<S("order"), I(1)>>), Msg(<<S("cancel")>>),
  Msg(<<S("sub"), I(1), S("x")>>),
  Msg(<<S("order"), I(1), S("desk1"), S("hold"), S("limit"), S("Day"), I(100), F(100), I(0)>>) }

VerbMsgs == {
  Heartbeat, OrderOk,
  Msg(<<S("bod")>>), Msg(<<S("reconnect"), S("md1")>>), Msg(<<S("securities")>>),
  Msg(<<S("position"), I(1), S("desk1")>>), Msg(<<S("offline"), I(1)>>),
  Msg(<<S("shutdown")>>), Msg(<<S("cancel"), I(5)>>),
  Msg(<<S("algo"), S("test"), S("TWAP"), S("tok-t"), O(<<>>)>>),
  Msg(<<S("pnl")>>), Msg(<<S("sub"), I(1)>>), Msg(<<S("sub"), I(9)>>),
  Msg(<<S("unsub"), I(1)>>), Msg(<<S("unsub"), I(9), I(1)>>),
  Msg(<<S("algoFile"), S("a.py")>>), Msg(<<S("saveAlgoFile"), S("b.py"), S("text")>>),
  Msg(<<S("deleteAlgoFile"), S("a.py")>>), Msg(<<S("foo")>>) }

Msgs == AuthMsgs \cup MalformedMsgs \cup VerbMsgs

\* tokens a stateless transport passes with a message: none, minted ones, a forged one
ForgedToken == 99
Tokens == {NoToken, 1, 2, ForgedToken}

\* how a read past the end of an array turns out: the process dies, or some
\* value is found there
UbOutcomes == {Segv, Null, S("alice")}

Confirmations == {
  [seq |-> 3, acc |-> 1, exec_type |-> "kNew", exec_trans_type |-> "kTransNew"],
  [seq |-> 4, acc |-> 2, exec_type |-> "kNew", exec_trans_type |-> "kTransNew"],
  [seq |-> 5, acc |-> 1, exec_type |-> "kFilled", exec_trans_type |-> "kTransCorrect"] }
AlgoEvents == {[seq |-> 2, user |-> 1, token |-> "tok-a"], [seq |-> 3, user |-> 2, token |-> "tok-b"]}
TestMsgs == {[token |-> "tok-t", stopped |-> TRUE], [token |-> "tok-x", stopped |-> FALSE]}

(***************************************************************************)
(* Initial state: a session just constructed on its transport.             *)
(***************************************************************************)
Threads == {"strand", "transport"}
Idle == [task |-> 0, out |-> <<>>, countdown |-> NoCountdown]

InitEngines ==
  [ec |-> TRUE, mdc |-> FALSE,
   md |-> [s \in SecurityIds |-> IF s = 1 THEN MdA ELSE ZeroMd],
   pos |-> [key \in {PositionKeys[i] : i \in DOMAIN PositionKeys} |-> <<0, 0>>],
   pnl |-> [a \in SubAccountIds |-> IF a = 1 THEN <<0, 5>> ELSE <<0, 0>>],
   algos |-> {}, files |-> {"a.py"}, stopped |-> FALSE, cancels |-> 0]

Init ==
  /\ user_ = NoUser /\ closed_ = FALSE /\ subs_ = EmptyMap /\ sub_pnl_ = FALSE
  /\ test_algo_tokens_ = {} /\ ecs_ = EmptyMap /\ mds_ = EmptyMap
  /\ single_pnls_ = EmptyMap /\ pnls_ = EmptyMap
  /\ stateless \in BOOLEAN
  /\ timer = 0 /\ strand = <<>> /\ running = [th \in Threads |-> Idle]
  /\ wire = [n |-> 0, task |-> 0, frame |-> <<>>]
  /\ kTokens = EmptyMap /\ proc = "up" /\ eng = InitEngines
  /\ last = [n |-> 0, id |-> 0, kind |-> "none", arg |-> Null, token |-> NoToken,
             user0 |-> NoUser, closed0 |-> FALSE, out |-> <<>>, calls |-> <<>>, th |-> "none"]
  /\ cnt = [msgs |-> 0, push |-> 0, ticks |-> 0, env |-> 0, tasks |-> 0]

(***************************************************************************)
(* Actions.                                                                *)
(***************************************************************************)
\* strand_.post(task)
Post(kind, arg) ==
  /\ strand' = Append(strand, [id |-> cnt.tasks + 1, kind |-> kind, arg |-> arg])

\* what a task posted to the strand runs
RunTask(c, task) ==
  CASE task.kind = "msg" -> OnMessageSync(c, task.arg, NoToken)
    [] task.kind = "conf" -> SendAll(c, EncodeConfirmation(task.arg, FALSE))
    [] task.kind = "algo" ->
         Send(c, <<S("algo"), I(task.arg.seq), S("id, tm"), S(task.arg.token), S("name, status, body")>>)
    [] task.kind = "test" ->
         LET c1 == Send(c, <<S("test_msg"), S("msg")>>)
         IN IF task.arg.stopped THEN Send(c1, <<S("test_done"), S(task.arg.token)>>) ELSE c1
    [] task.kind = "tick" -> OnTimer(c)

\* the outcomes to follow for a handler, given its run c in which a read past
\* the end of an array ends the process: all of them when it made such a
\* read, else that run alone
ReadOutcomes(c) == IF c.proc = "crashed" THEN UbOutcomes ELSE {Segv}

\* the state a handler leaves behind; the frames it handed to Send are
\* written one by one by Write below
Commit(c, th, id, kind, arg, token) ==
  /\ user_' = c.user /\ subs_' = c.subs /\ sub_pnl_' = c.sub_pnl
  /\ test_algo_tokens_' = c.tat /\ ecs_' = c.ecs /\ mds_' = c.mds
  /\ single_pnls_' = c.single_pnls /\ pnls_' = c.pnls
  /\ kTokens' = c.kTokens /\ timer' = c.timer /\ eng' = c.eng /\ proc' = c.proc
  /\ running' = [running EXCEPT ![th] =
                   IF c.proc # "up" \/ (c.out = <<>> /\ ~c.countdown.on) THEN Idle
                   ELSE [task |-> id, out |-> c.out, countdown |-> c.countdown]]
  /\ last' = [n |-> last.n + 1, id |-> id, kind |-> kind, arg |-> arg, token |-> token,
              user0 |-> user_, closed0 |-> closed_, out |-> c.out, calls |-> c.calls, th |-> th]

\* Connection::OnMessageAsync(msg), called by a stateful transport
OnMessageAsync(msg, b) ==
  /\ proc = "up" /\ ~stateless /\ cnt.msgs < b.msgs
  /\ cnt' = [cnt EXCEPT !.msgs = @ + 1, !.tasks = IF closed_ THEN @ ELSE @ + 1]
  /\ IF closed_ THEN UNCHANGED strand ELSE Post("msg", msg)
  /\ UNCHANGED <<sessionState, closed_, stateless, timer, running, wire, kTokens, proc, eng, last>>

\* Connection::OnMessageSync(msg, token), called by a stateless transport in
\* its own thread
OnMessageSyncCall(msg, token, b) ==
  /\ proc = "up" /\ stateless /\ cnt.msgs < b.msgs /\ running["transport"] = Idle
  /\ cnt' = [cnt EXCEPT !.msgs = @ + 1, !.tasks = @ + 1]
  /\ \E ub \in ReadOutcomes(OnMessageSync(Ctx(Segv), msg, token)) :
       Commit(OnMessageSync(Ctx(ub), msg, token), "transport", cnt.tasks + 1, "msg", msg, token)
  /\ UNCHANGED <<closed_, stateless, strand, wire>>

\* the strand takes its oldest task when it runs none
StrandRun ==
  /\ proc = "up" /\ strand # <<>> /\ running["strand"] = Idle
  /\ strand' = Tail(strand)
  /\ \E ub \in ReadOutcomes(RunTask(Ctx(Segv), Head(strand))) :
       Commit(RunTask(Ctx(ub), Head(strand)), "strand", Head(strand).id,
              Head(strand).kind, Head(strand).arg, NoToken)
  /\ UNCHANGED <<closed_, stateless, wire, cnt>>

\* a Send(const std::string&) that does not look at closed_
WriteWhenClosed(th) ==
  /\ proc = "up" /\ running[th].out # <<>>
  /\ wire' = [n |-> wire.n + 1, task |-> running[th].task, frame |-> Head(running[th].out)]
  /\ running' = [running EXCEPT ![th] =
                   IF Len(@.out) = 1 /\ ~@.countdown.on THEN Idle
                   ELSE [@ EXCEPT !.out = Tail(@)]]
  /\ UNCHANGED <<sessionState, closed_, stateless, timer, strand, kTokens, proc, eng, last, cnt>>

\* Connection::Send(const std::string&): the next frame of the running
\* handler goes to the transport unless the session is closed
Write(th) ==
  /\ proc = "up" /\ running[th].out # <<>>
  /\ wire' = IF closed_ THEN wire
             ELSE [n |-> wire.n + 1, task |-> running[th].task, frame |-> Head(running[th].out)]
  /\ running' = [running EXCEPT ![th] =
                   IF Len(@.out) = 1 /\ ~@.countdown.on THEN Idle
                   ELSE [@ EXCEPT !.out = Tail(@)]]
  /\ UNCHANGED <<sessionState, closed_, stateless, timer, strand, kTokens, proc, eng, last, cnt>>

\* an ownership test that only asks for a user
OwnsAny(user, acc) == user # NoUser

\* does the session's user own the sub-account of the confirmation's order
Owns(user, acc) == user # NoUser /\ acc \in UserById(user).sub_accounts

\* Connection::Send(Confirmation::Ptr), called by the thread that reports the
\* confirmation
SendConfirmation(cm, b) ==
  /\ proc = "up" /\ cnt.push < b.push
  /\ LET posted == ~closed_ /\ user_ # NoUser /\ Owns(user_, cm.acc)
     IN /\ cnt' = [cnt EXCEPT !.push = @ + 1, !.tasks = IF posted THEN @ + 1 ELSE @]
        /\ IF posted THEN Post("conf", cm) ELSE UNCHANGED strand
  /\ UNCHANGED <<sessionState, closed_, stateless, timer, running, wire, kTokens, proc, eng, last>>

\* a Send(const Algo&, ...) that writes in the algo's thread instead of posting
SendAlgoInCaller(ev, b) ==
  /\ proc = "up" /\ cnt.push < b.push
  /\ LET sent == ~closed_ /\ user_ # NoUser /\ user_ = ev.user
     IN /\ cnt' = [cnt EXCEPT !.push = @ + 1, !.tasks = IF sent THEN @ + 1 ELSE @]
        /\ wire' = IF sent
                   THEN [n |-> wire.n + 1, task |-> cnt.tasks + 1,
                         frame |-> <<S("algo"), I(ev.seq), S("id, tm"), S(ev.token),
                                     S("name, status, body")>>]
                   ELSE wire
  /\ UNCHANGED <<sessionState, closed_, stateless, timer, strand, running, kTokens, proc, eng, last>>

\* Connection::Send(const Algo&, status, body, seq), called by the algo's thread
SendAlgo(ev, b) ==
  /\ proc = "up" /\ cnt.push < b.push
  /\ LET posted == ~closed_ /\ user_ # NoUser /\ user_ = ev.user
     IN /\ cnt' = [cnt EXCEPT !.push = @ + 1, !.tasks = IF posted THEN @ + 1 ELSE @]
        /\ IF posted THEN Post("algo", ev) ELSE UNCHANGED strand
  /\ UNCHANGED <<sessionState, closed_, stateless, timer, running, wire, kTokens, proc, eng, last>>

\* Connection::SendTestMsg(token, msg, stopped), called by the test runner
SendTestMsg(tm, b) ==
  /\ proc = "up" /\ cnt.push < b.push
  /\ LET posted == ~closed_ /\ tm.token \in test_algo_tokens_
     IN /\ cnt' = [cnt EXCEPT !.push = @ + 1, !.tasks = IF posted THEN @ + 1 ELSE @]
        /\ IF posted THEN Post("test", tm) ELSE UNCHANGED strand
  /\ UNCHANGED <<sessionState, closed_, stateless, timer, running, wire, kTokens, proc, eng, last>>

\* a wait on timer_ expires: its handler goes to the strand
TimerFire(b) ==
  /\ proc = "up" /\ timer > 0 /\ cnt.ticks < b.ticks
  /\ timer' = timer - 1
  /\ Post("tick", Null)
  /\ cnt' = [cnt EXCEPT !.ticks = @ + 1, !.tasks = @ + 1]
  /\ UNCHANGED <<sessionState, closed_, stateless, running, wire, kTokens, proc, eng, last>>

\* the transport closes the session
Close ==
  /\ proc = "up" /\ ~closed_
  /\ closed_' = TRUE
  /\ UNCHANGED <<sessionState, stateless, timer, strand, running, wire, kTokens, proc, eng, last, cnt>>

\* the users a login succeeds for
LoginUsers == {u.id : u \in {x \in Users : ~x.is_disabled}}

\* OnLogin of another session of the process: kTokens[token] = user
OtherSessionLogin(user, b) ==
  /\ proc = "up" /\ cnt.env < b.env
  /\ cnt' = [cnt EXCEPT !.env = @ + 1]
  /\ kTokens' = Put(kTokens, NewToken(kTokens), user)
  /\ UNCHANGED <<sessionState, closed_, stateless, timer, strand, running, wire, proc, eng, last>>

\* how far below zero the countdown of shutdown is followed
MaxOvershoot == 2

\* one round of the countdown loop of shutdown, and the kill after it
Countdown(th) ==
  /\ proc = "up" /\ running[th].out = <<>> /\ running[th].countdown.on
  /\ LET cd == running[th].countdown
     IN IF cd.seconds # 0
        THEN /\ cd.seconds >= -MaxOvershoot
             /\ running' = [running EXCEPT ![th].countdown.seconds =
                              Trunc(10 * cd.seconds - cd.interval)]
             /\ eng' = [eng EXCEPT !.cancels = 1]
             /\ UNCHANGED proc
        ELSE /\ proc' = "killed"
             /\ UNCHANGED <<running, eng>>
  /\ UNCHANGED <<sessionState, closed_, stateless, timer, strand, wire, kTokens, last, cnt>>

\* the engines move on: an adapter connects or disconnects, a snapshot or a
\* PnL value changes
EngineChange(b) ==
  /\ proc = "up" /\ cnt.env < b.env
  /\ cnt' = [cnt EXCEPT !.env = @ + 1]
  /\ \/ eng' = [eng EXCEPT !.ec = ~@]
     \/ eng' = [eng EXCEPT !.mdc = ~@]
     \/ \E snap \in MdSnapshots : eng' = [eng EXCEPT !.md[1] = snap] /\ eng' # eng
     \/ \E v \in PnlValues : eng' = [eng EXCEPT !.pnl[1] = v, !.pos[<<1, 1>>] = v] /\ eng' # eng
  /\ UNCHANGED <<sessionState, closed_, stateless, timer, strand, running, wire, kTokens, proc, last>>

Bounds(m, p, t, e) == [msgs |-> m, push |-> p, ticks |-> t, env |-> e]

\* the pushes of the engines' threads
Pushes(b) ==
  \/ \E cm \in Confirmations : SendConfirmation(cm, b)
  \/ \E ev \in AlgoEvents : SendAlgo(ev, b)
  \/ \E tm \in TestMsgs : SendTestMsg(tm, b)

(***************************************************************************)
(* Spec: a session on a stateful transport with its strand, its timer, the *)
(* pushes of the engines and the close of the transport.                   *)
(***************************************************************************)
MaxMsgs == 2
MaxPush == 1
MaxTicks == 1

AlgoTest == Msg(<<S("algo"), S("test"), S("TWAP"), S("tok-t"), O(<<>>)>>)
Sub1 == Msg(<<S("sub"), I(1)>>)
CoreMsgs == {LoginAlice, LoginBob, Sub1, AlgoTest}

Next ==
  \/ \E msg \in CoreMsgs : OnMessageAsync(msg, Bounds(MaxMsgs, MaxPush, MaxTicks, 0))
  \/ StrandRun
  \/ Write("strand")
  \/ Pushes(Bounds(MaxMsgs, MaxPush, MaxTicks, 0))
  \/ TimerFire(Bounds(MaxMsgs, MaxPush, MaxTicks, 0))
  \/ Close

\* the session is created by a stateful transport
InitStateful == Init /\ ~stateless

Spec == InitStateful /\ [][Next]_vars

(***************************************************************************)
(* SpecGate: the login gate and login itself, over every verb, on a        *)
(* stateful and on a stateless transport, with other sessions logging in.  *)
(***************************************************************************)
GateMaxMsgs == 2
GateMaxEnv == 1

\* the tokens a message arrives with: none, the first minted, a forged one
GateTokens == {NoToken, 1, ForgedToken}

\* logins and every verb, well formed
GateMsgs == AuthMsgs \cup VerbMsgs

NextGate ==
  \/ \E msg \in GateMsgs : OnMessageAsync(msg, Bounds(GateMaxMsgs, 0, 0, GateMaxEnv))
  \/ \E msg \in GateMsgs, token \in GateTokens :
       OnMessageSyncCall(msg, token, Bounds(GateMaxMsgs, 0, 0, GateMaxEnv))
  \/ StrandRun
  \/ \E th \in Threads : Write(th)
  \/ \E th \in Threads : Countdown(th)
  \/ \E u \in LoginUsers : OtherSessionLogin(u, Bounds(GateMaxMsgs, 0, 0, GateMaxEnv))

SpecGate == Init /\ [][NextGate]_vars

(***************************************************************************)
(* SpecMalformed: malformed messages, before and after a login, on a       *)
(* stateful and on a stateless transport.                                  *)
(***************************************************************************)
MalformedMaxMsgs == 2

\* the tokens a message arrives with: none, or the one a login minted
MalformedTokens == {NoToken, 1}

NextMalformed ==
  \/ \E msg \in MalformedMsgs \cup {LoginAlice} :
       OnMessageAsync(msg, Bounds(MalformedMaxMsgs, 0, 0, 0))
  \/ \E msg \in MalformedMsgs \cup {LoginAlice}, token \in MalformedTokens :
       OnMessageSyncCall(msg, token, Bounds(MalformedMaxMsgs, 0, 0, 0))
  \/ StrandRun
  \/ \E th \in Threads : Write(th)

SpecMalformed == Init /\ [][NextMalformed]_vars

(***************************************************************************)
(* SpecSubs: a logged-in session subscribing and unsubscribing, on a       *)
(* stateful and on a stateless transport.                                  *)
(***************************************************************************)
SubsMaxMsgs == 4

Sub11 == Msg(<<S("sub"), I(1), I(1)>>)
Sub9 == Msg(<<S("sub"), I(9)>>)
Unsub1 == Msg(<<S("unsub"), I(1)>>)
Unsub11 == Msg(<<S("unsub"), I(1), I(1)>>)
Unsub91 == Msg(<<S("unsub"), I(9), I(1)>>)
SubsMsgs == {LoginAlice, Sub1, Sub11, Sub9, Unsub1, Unsub11, Unsub91}

NextSubs ==
  \/ \E msg \in SubsMsgs : OnMessageAsync(msg, Bounds(SubsMaxMsgs, 0, 0, 0))
  \/ \E msg \in SubsMsgs : OnMessageSyncCall(msg, 1, Bounds(SubsMaxMsgs, 0, 0, 0))
  \/ StrandRun
  \/ \E th \in Threads : Write(th)

SpecSubs == Init /\ [][NextSubs]_vars

(***************************************************************************)
(* SpecPublisher: a session on a stateful transport that logs in and       *)
(* subscribes while the timer fires and the engines move on.               *)
(***************************************************************************)
PubMaxMsgs == 2
PubMaxTicks == 2
PubMaxEnv == 2

Sub12 == Msg(<<S("sub"), I(1), I(2)>>)
PubMsgs == {LoginAlice, Sub1, Sub12, Sub9}

NextPublisher ==
  \/ \E msg \in PubMsgs : OnMessageAsync(msg, Bounds(PubMaxMsgs, 0, PubMaxTicks, PubMaxEnv))
  \/ StrandRun
  \/ Write("strand")
  \/ TimerFire(Bounds(PubMaxMsgs, 0, PubMaxTicks, PubMaxEnv))
  \/ EngineChange(Bounds(PubMaxMsgs, 0, PubMaxTicks, PubMaxEnv))

SpecPublisher == InitStateful /\ [][NextPublisher]_vars

(***************************************************************************)
(* SpecPnl: a session that logs in, subscribes a security and asks for     *)
(* PnL while the timer fires and the engines move on.                      *)
(***************************************************************************)
PnlMaxMsgs == 3
PnlMaxTicks == 2
PnlMaxEnv == 1

PnlMsg == Msg(<<S("pnl")>>)
PnlMsgs == {LoginAlice, Sub1, PnlMsg}

NextPnl ==
  \/ \E msg \in PnlMsgs : OnMessageAsync(msg, Bounds(PnlMaxMsgs, 0, PnlMaxTicks, PnlMaxEnv))
  \/ StrandRun
  \/ Write("strand")
  \/ TimerFire(Bounds(PnlMaxMsgs, 0, PnlMaxTicks, PnlMaxEnv))
  \/ EngineChange(Bounds(PnlMaxMsgs, 0, PnlMaxTicks, PnlMaxEnv))

SpecPnl == InitStateful /\ [][NextPnl]_vars

(***************************************************************************)
(* SpecOrder: orders, good and bad in each field, before and after a       *)
(* login, on a stateful and on a stateless transport.                      *)
(***************************************************************************)
OrderMaxMsgs == 2

\* ["order", security id, sub-account, side, type, tif, qty, price, stop price]
Order(sec, acc, side, type, stop) ==
  Msg(<<S("order"), I(sec), S(acc), S(side), S(type), S("Day"), I(100), F(100), I(stop)>>)

OrderMsgs ==
  {Order(sec, acc, side, "limit", 0) :
     sec \in {1, 9}, acc \in {"desk1", "desk2", "nodesk"}, side \in {"buy", "hold"}}
  \cup {Order(1, "desk1", "sell", type, stop) :
          type \in {"stop", "STOP LIMIT", "market", "weird"}, stop \in {0, 5}}
  \cup {Order(9, "desk1", "hold", "stop", 0), Order(1, "desk1", "hold", "stop limit", 0)}

NextOrder ==
  \/ \E msg \in OrderMsgs \cup {LoginAlice, LoginBob} :
       OnMessageAsync(msg, Bounds(OrderMaxMsgs, 0, 0, 0))
  \/ \E msg \in OrderMsgs \cup {LoginAlice, LoginBob} :
       OnMessageSyncCall(msg, 1, Bounds(OrderMaxMsgs, 0, 0, 0))
  \/ StrandRun
  \/ \E th \in Threads : Write(th)

SpecOrder == Init /\ [][NextOrder]_vars

(***************************************************************************)
(* SpecAlgo: algo new and algo test with parameters of every shape, on a   *)
(* stateful and on a stateless transport.                                  *)
(***************************************************************************)
AlgoMaxMsgs == 3

\* a security tuple on the sub-account acc, as a JSON object
Tuple(acc, qty) ==
  O(<<[key |-> "acc", val |-> S(acc)], [key |-> "qty", val |-> I(qty)],
      [key |-> "sec", val |-> I(1)], [key |-> "side", val |-> S("buy")]>>)

\* {key: val}
Param(key, val) == O(<<[key |-> key, val |-> val]>>)

\* ["algo", action, name, token, params]
AlgoStart(action, name, token, params) ==
  Msg(<<S("algo"), S(action), S(name), S(token), params>>)

AlgoParams ==
  {O(<<>>), Param("x", I(1)), Param("st", Tuple("desk1", 100)), Param("st", Tuple("desk2", 100)),
   Param("st", Tuple("desk1", 0)), Param("legs", A(<<Tuple("desk1", 100), Tuple("desk2", 100)>>))}

AlgoMsgs ==
  {AlgoStart("new", "TWAP", "tok-1", p) : p \in AlgoParams}
  \cup {AlgoStart("new", "NOPE", "tok-1", O(<<>>)), AlgoStart("test", "TWAP", "tok-1", O(<<>>)),
        AlgoTest}

NextAlgo ==
  \/ \E msg \in AlgoMsgs \cup {LoginAlice} : OnMessageAsync(msg, Bounds(AlgoMaxMsgs, 0, 0, 0))
  \/ \E msg \in AlgoMsgs \cup {LoginAlice} :
       OnMessageSyncCall(msg, 1, Bounds(AlgoMaxMsgs, 0, 0, 0))
  \/ StrandRun
  \/ \E th \in Threads : Write(th)

SpecAlgo == Init /\ [][NextAlgo]_vars

(***************************************************************************)
(* SpecOffline: offline replays from every stored seq, with and without    *)
(* the seq of the algo events, on a stateful and on a stateless transport. *)
(***************************************************************************)
OfflineMaxMsgs == 2

\* the seqs a replay is asked from
OfflineSeqs == 0..2

OfflineMsgs ==
  {Msg(<<S("offline"), I(a)>>) : a \in OfflineSeqs}
  \cup {Msg(<<S("offline"), I(a), I(b)>>) : a \in OfflineSeqs, b \in 0..1}

NextOffline ==
  \/ \E msg \in OfflineMsgs \cup {LoginAlice} :
       OnMessageAsync(msg, Bounds(OfflineMaxMsgs, 0, 0, 0))
  \/ \E msg \in OfflineMsgs \cup {LoginAlice} :
       OnMessageSyncCall(msg, 1, Bounds(OfflineMaxMsgs, 0, 0, 0))
  \/ StrandRun
  \/ \E th \in Threads : Write(th)

SpecOffline == Init /\ [][NextOffline]_vars

(***************************************************************************)
(* SpecGetters: messages that parse and hold a field of the wrong JSON     *)
(* kind, on a stateful and on a stateless transport.                       *)
(***************************************************************************)
GettersMaxMsgs == 2

\* one message per getter: Get<int64_t>, Get<std::string>, Get<bool>, GetNum
WrongKindMsgs ==
  {Msg(<<S("cancel"), S("x")>>), Msg(<<S("sub"), I(1), S("x")>>),
   Msg(<<S("position"), S("x"), S("desk1")>>), Msg(<<S("position"), I(1), I(2)>>),
   Msg(<<S("position"), I(1), S("desk1"), I(1)>>),
   Msg(<<S("order"), I(1), S("desk1"), S("buy"), S("limit"), S("Day"), S("x"), F(100), I(0)>>)}

NextGetters ==
  \/ \E msg \in WrongKindMsgs \cup {LoginAlice, Unparsable} :
       OnMessageAsync(msg, Bounds(GettersMaxMsgs, 0, 0, 0))
  \/ \E msg \in WrongKindMsgs \cup {LoginAlice, Unparsable} :
       OnMessageSyncCall(msg, 1, Bounds(GettersMaxMsgs, 0, 0, 0))
  \/ StrandRun
  \/ \E th \in Threads : Write(th)

SpecGetters == Init /\ [][NextGetters]_vars

(***************************************************************************)
(* SpecShutdown: shutdown requests of an admin and of another user, with   *)
(* and without arguments, and the countdown that follows.                  *)
(***************************************************************************)
ShutMaxMsgs == 2

\* ["shutdown"(, grace seconds(, interval))]
ShutdownMsgs ==
  {Msg(<<S("shutdown")>> \o args) :
     args \in {<<>>, <<I(5)>>, <<I(5), I(2)>>, <<I(4), F(15)>>, <<I(4), I(2)>>,
               <<S("x")>>, <<I(5), S("x")>>}}

NextShutdown ==
  \/ \E msg \in ShutdownMsgs \cup {LoginAlice, LoginBob} :
       OnMessageAsync(msg, Bounds(ShutMaxMsgs, 0, 0, 0))
  \/ \E msg \in ShutdownMsgs \cup {LoginAlice, LoginBob} :
       OnMessageSyncCall(msg, 1, Bounds(ShutMaxMsgs, 0, 0, 0))
  \/ StrandRun
  \/ \E th \in Threads : Write(th)
  \/ \E th \in Threads : Countdown(th)

SpecShutdown == Init /\ [][NextShutdown]_vars

(***************************************************************************)
(* Properties.  `last` is the handler that ran last: in a step that runs a *)
(* handler last.n grows, last' describes that handler and the unprimed     *)
(* variables are the state it found.                                       *)
(***************************************************************************)
\* the verb of an inbound message: element 0 when it is a string, else ""
Verb(m) ==
  IF m.k = "json" /\ is_array(m.v) /\ Len(m.v.v) > 0 /\ is_string(m.v.v[1])
  THEN m.v.v[1].v ELSE ""

\* a handler of an inbound message runs in this step
HandlesMsg == last'.n # last.n /\ last'.kind = "msg"

\* C1: on a session with no user attached, a message whose token the token
\* table does not hold and whose verb is a non-empty string other than h,
\* login and validate_user gets exactly the frame
\* ["error","msg","action","you must login first"]; no engine is called and
\* neither the session nor the token table nor the engines change.
C1_LoginGate ==
  [][(/\ HandlesMsg
      /\ user_ = NoUser
      /\ last'.token \notin DOMAIN kTokens
      /\ Verb(last'.arg) \notin {"", "h", "login", "validate_user"})
     => (/\ last'.out = <<LoginFirst>>
         /\ last'.calls = <<>>
         /\ sessionState' = sessionState
         /\ kTokens' = kTokens
         /\ eng' = eng
         /\ timer' = timer)]_vars

\* an order with a forged token, while the token table holds another token,
\* was answered by the login error
C1_Witness ==
  /\ last.kind = "msg" /\ last.user0 = NoUser /\ Verb(last.arg) = "order"
  /\ last.token = ForgedToken /\ kTokens # EmptyMap
  /\ last.out = <<LoginFirst>>

\* C2: a live confirmation is posted to the strand, and encoded and handed to
\* the writer, only for a session whose user is attached and has the
\* sub-account of the confirmation's order among its sub-accounts.
C2_ConfirmationOnlyToOwner ==
  /\ \A i \in DOMAIN strand :
       strand[i].kind = "conf"
         => user_ # NoUser /\ strand[i].arg.acc \in UserById(user_).sub_accounts
  /\ last.kind = "conf"
       => user_ # NoUser /\ last.arg.acc \in UserById(user_).sub_accounts

\* the frame of a confirmation went out to its owner
C2_Witness ==
  /\ last.kind = "conf" /\ last.out # <<>>
  /\ wire.task = last.id /\ wire.frame[1] = S("order")
  /\ last.arg.acc \in UserById(user_).sub_accounts

\* C3: the tasks of a session run one at a time and in the order their
\* producers were accepted, and every frame is written by the task that ran
\* last: a handler starts only when the strand runs nothing, the task ids
\* (given at acceptance) of successive handlers and of successive frames
\* never decrease.
C3_StrandSerializes ==
  [][/\ last'.n # last.n => running["strand"] = Idle /\ last'.id > last.id
     /\ wire'.n # wire.n => wire'.task = last.id /\ wire'.task >= wire.task]_vars

\* an algo status was written after frames of an earlier task
C3_Witness ==
  /\ last.kind = "algo" /\ last.id >= 2
  /\ wire.task = last.id /\ wire.n > Len(last.out)

\* C4: once closed_ is set the transport is given nothing more.
C4_NothingWrittenAfterClose == [][closed_ => wire' = wire]_vars

\* a confirmation posted before the close ran after it, and its frame was
\* dropped
C4_Witness ==
  /\ closed_ /\ last.kind = "conf" /\ last.closed0 /\ last.out # <<>>
  /\ running["strand"] = Idle /\ wire.task # last.id

\* a well-formed validate_user message
ValidateUserMsgs == {m \in AuthMsgs : Verb(m) = "validate_user"}

\* C5: validate_user on a session with no user is answered by exactly one
\* frame ["user_validation", id or 0, correlation], never by the login error,
\* and leaves the session's user null.
C5_ValidateUserAnswered ==
  (last.kind = "msg" /\ last.user0 = NoUser /\ last.arg \in ValidateUserMsgs)
    => /\ Len(last.out) = 1
       /\ last.out[1][1] = S("user_validation")
       /\ last.out # <<LoginFirst>>
       /\ user_ = NoUser

\* C6: on a stateless transport a message whose token the token table does
\* not hold is rejected with the login error, whatever earlier messages
\* carried.
C6_StatelessTokenPerMessage ==
  (/\ stateless /\ last.kind = "msg"
   /\ last.token \notin DOMAIN kTokens
   /\ Verb(last.arg) \notin {"", "h", "login", "validate_user"})
    => last.out = <<LoginFirst>>

\* the successful logins of the alphabet
OkLogins == {LoginAlice, LoginBob}

\* C7: after a successful login on a stateful transport the session's user is
\* the user the login named.
C7_LoginAttachesNamedUser ==
  (~stateless /\ last.kind = "msg" /\ last.arg \in OkLogins /\ proc = "up")
    => user_ = GetUser(last.arg.v.v[2].v)

\* a login with a string name and a string password
LoginMsgs == {m \in AuthMsgs : Verb(m) = "login"}

\* the state a login must report: an unknown name, then a wrong password,
\* then a disabled user
RejectionOf(m) ==
  IF \A u \in Users : u.name # m.v.v[2].v THEN "unknown user"
  ELSE IF \A u \in Users : u.name = m.v.v[2].v => u.password # sha1(m.v.v[3].v)
  THEN "wrong password"
  ELSE IF \E u \in Users : u.name = m.v.v[2].v /\ u.is_disabled THEN "disabled"
  ELSE "ok"

\* C8: a login that fails is answered by exactly the frame
\* ["connection", state], state being "unknown user", else "wrong password",
\* else "disabled"; no token is minted, the session's user and fields stay,
\* nothing is exported and the publisher is not started.
C8_FailedLogin ==
  [][(HandlesMsg /\ last'.arg \in LoginMsgs /\ RejectionOf(last'.arg) # "ok")
     => (/\ last'.out = << <<S("connection"), S(RejectionOf(last'.arg))>> >>
         /\ last'.calls = <<>>
         /\ kTokens' = kTokens
         /\ sessionState' = sessionState
         /\ timer' = timer)]_vars

\* a disabled user's login with a wrong password was answered "wrong password"
C8_Witness ==
  /\ last.kind = "msg" /\ last.user0 = NoUser
  /\ last.arg = Msg(<<S("login"), S("carol"), S("bad")>>)
  /\ last.out = << <<S("connection"), S("wrong password")>> >>
  /\ user_ = NoUser /\ timer = 0

\* C9: whatever the inbound message, a malformed one is answered by one error
\* frame and the process goes on.
C9_MalformedAnsweredByError ==
  (last.kind = "msg" /\ last.arg \in MalformedMsgs)
    => /\ proc # "crashed"
       /\ Len(last.out) = 1
       /\ last.out[1][1] = S("error")

\* C10: every entry of subs_ has a count of at least one.
C10_SubsCountsPositive == \A id \in DOMAIN subs_ : subs_[id].cnt >= 1

\* C11: a sub that names a security id the SecurityManager does not know
\* creates no entry in subs_: every id subs_ holds is a known security, so
\* that no later tick iterates over an unknown id.
C11_UnknownSubCreatesNoEntry == \A id \in DOMAIN subs_ : SecurityKnown(id)

\* the ids a sub or an unsub names
IdsOf(m) == Tail(m.v.v)

\* how often a sub or an unsub names the security s
Occurrences(m, s) == Cardinality({i \in DOMAIN IdsOf(m) : IdsOf(m)[i] = I(s)})

\* the count subs_ holds for s, 0 when s is absent
CountOf(map, s) == IF s \in DOMAIN map THEN map[s].cnt ELSE 0

HandlesTick == last'.n # last.n /\ last'.kind = "tick"

\* the "md" frames among the frames of a handler
MdFrames(out) == {n \in DOMAIN out : out[n][1] = S("md")}

\* does a handler's "md" frame hold an entry for the security s
HasEntry(out, s) ==
  \E n \in MdFrames(out) : \E i \in 2..Len(out[n]) : out[n][i].v[1] = I(s)

\* C13: on a tick, for each subscribed security s, the "md" frame holds an
\* entry for s exactly when the timestamp of the current snapshot of s differs
\* from the timestamp of the snapshot last sent for s (the one subs_ keeps);
\* when no security has an entry no "md" frame is sent, else one is.
C13_MdEntryIffNewTimestamp ==
  [][HandlesTick
       => /\ \A s \in DOMAIN subs_ \cap SecurityIds :
               HasEntry(last'.out, s) <=> (eng.md[s].tm # subs_[s].md.tm)
          /\ Cardinality(MdFrames(last'.out)) =
               IF \E s \in DOMAIN subs_ \cap SecurityIds : eng.md[s].tm # subs_[s].md.tm
               THEN 1 ELSE 0]_vars

\* a tick found security 1 subscribed with a newer timestamp and security 2
\* subscribed with none, and sent an "md" frame with the one entry
C13_Witness ==
  /\ last.kind = "tick"
  /\ {1, 2} \subseteq DOMAIN subs_
  /\ subs_[1].md = MdB
  /\ HasEntry(last.out, 1) /\ ~HasEntry(last.out, 2)

\* the fields of an order message that fail the checks of the claim
FailingFields(m) ==
  {f \in {"sub_account", "security id", "side", "stop price"} :
     \/ f = "sub_account" /\ m.v.v[3].v \notin {"desk1", "desk2"}
     \/ f = "security id" /\ m.v.v[2].v \notin SecurityIds
     \/ f = "side" /\ m.v.v[4].v \notin {"buy", "sell", "short"}
     \/ f = "stop price" /\ m.v.v[5].v \in {"stop", "STOP", "stop limit", "STOP LIMIT"}
                          /\ m.v.v[9].v <= 0}

\* the calls of ExchangeConnectivityManager::Place among the calls of a handler
Places(calls) == {n \in DOMAIN calls : calls[n].fn = "ExchangeConnectivityManager::Place"}

Spawns(calls) == {n \in DOMAIN calls : calls[n].fn = "AlgoManager::Spawn"}

\* does the user own the sub-account of every security tuple the parsed
\* value holds, itself or as an element of a vector
OwnsTuplesOf(user, val) ==
  /\ val.t = "SecurityTuple" => val.acc \in UserById(user).sub_accounts
  /\ val.t = "vector" =>
       \A i \in DOMAIN val.elems :
         val.elems[i].t = "SecurityTuple" => val.elems[i].acc \in UserById(user).sub_accounts

\* C15: the parameter map an algo new hands to AlgoManager::Spawn holds no
\* security tuple whose sub-account the requesting user does not own.
C15_SpawnOnlyOwnedAccounts ==
  (last.kind = "msg" /\ Verb(last.arg) = "algo" /\ last.arg.v.v[2] = S("new"))
    => \A n \in Spawns(last.calls) :
         \A i \in DOMAIN last.calls[n].arg.params :
           OwnsTuplesOf(last.calls[n].arg.user, last.calls[n].arg.params[i].val)

\* C16: an algo new or algo test whose token names an algo the AlgoManager
\* knows is answered by the one frame ["error", "algo", "duplicate token",
\* token]; nothing is spawned and the token is not added to
\* test_algo_tokens_.  So the second of two identical algo new in a row, the
\* first of which spawned, gets that frame.
C16_DuplicateToken ==
  [][(/\ HandlesMsg /\ user_' # NoUser /\ last'.arg \in AlgoMsgs
      /\ last'.arg.v.v[4].v \in eng.algos)
       => /\ last'.out = << <<S("error"), S("algo"), S("duplicate token"), last'.arg.v.v[4]>> >>
          /\ last'.calls = <<>>
          /\ test_algo_tokens_' = test_algo_tokens_
          /\ eng' = eng]_vars

\* an algo test under the token of a spawned algo was answered "duplicate
\* token" and its token is not in test_algo_tokens_
C16_Witness ==
  /\ last.kind = "msg" /\ user_ # NoUser
  /\ last.arg = AlgoStart("test", "TWAP", "tok-1", O(<<>>))
  /\ "tok-1" \in eng.algos /\ "tok-1" \notin test_algo_tokens_
  /\ last.out = << <<S("error"), S("algo"), S("duplicate token"), S("tok-1")>> >>

\* the places of the frames of a handler that start with the verb and, for
\* a terminator, end with "complete"
FramesOf(out, verb) == {n \in DOMAIN out : out[n][1] = S(verb)}
Terminators(out, verb) == {n \in DOMAIN out : out[n] = <<S(verb), S("complete")>>}

\* the seq of a stored event above the seq asked for
SeqsAbove(stored, seq) == {stored[i].seq : i \in {k \in DOMAIN stored : stored[k].seq > seq}}

C18_ErrorFramesHaveFourElements ==
  \A n \in DOMAIN last.out : last.out[n][1] = S("error") => Len(last.out[n]) = 4

\* C19: when a typed getter rejects a field of a message that parsed, the
\* reply is one error frame with the tag of a message that did not parse:
\* its first two elements are "error", "json".
C19_GetterRejectionTaggedJson ==
  (last.kind = "msg" /\ user_ # NoUser /\ last.arg \in WrongKindMsgs)
    => /\ Len(last.out) = 1
       /\ last.out[1][1] = S("error") /\ last.out[1][2] = S("json")

\* the position requests that name a known security and a known sub-account
PositionMsgs ==
  {Msg(<<S("position"), I(1), S("desk1")>>)}

\* C20: a position request naming a known security and a known sub-account
\* is answered by exactly one frame, the position record composed from the
\* position of the pair.
C20_PositionReply ==
  (last.kind = "msg" /\ user_ # NoUser /\ last.arg \in PositionMsgs)
    => last.out = << PositionRecord(PositionOf(eng, GetSubAccount(last.arg.v.v[3].v),
                                               last.arg.v.v[2].v)) >>

C22_ClosedTickSkipsBody ==
  [][(HandlesTick /\ closed_)
       => /\ last'.out = <<>>
          /\ sessionState' = sessionState
          /\ timer' = timer]_vars

\* the ticks of the session that are pending: the waits on timer_ and the
\* handlers of expired waits that the strand has not run yet
PendingTicks == timer + Cardinality({i \in DOMAIN strand : strand[i].kind = "tick"})

C24_PushReadsNoSessionState ==
  [][(cnt'.push # cnt.push /\ running["strand"] # Idle /\ last.kind = "msg")
       => cnt'.tasks = cnt.tasks + 1]_vars

\* C25: an unsub of several ids skips the ids that are not subscribed and
\* nothing else: the count of every security falls by the number of times the
\* request names it, down to 0 (where the security is removed), wherever the
\* missing ids stand in the request.
C25_UnsubSkipsMissingOnly ==
  [][\A s \in SecurityIds :
       (HandlesMsg /\ user_' # NoUser /\ last'.arg \in SubsMsgs /\ Verb(last'.arg) = "unsub")
         => CountOf(subs_', s) =
              IF CountOf(subs_, s) > Occurrences(last'.arg, s)
              THEN CountOf(subs_, s) - Occurrences(last'.arg, s) ELSE 0]_vars

\* C26: an entry of an "md" frame, whether of a tick or of the answer to a
\* sub, never holds the timestamp alone: a snapshot whose timestamp differs
\* and whose trade and depth fields do not gets no entry.
C26_NoEntryOfTimestampOnly ==
  \A n \in MdFrames(last.out) :
    \A i \in 2..Len(last.out[n]) : last.out[n][i].v[2].v.fields # {<<"t", 0>>}

\* C27: the countdown of an admin's shutdown ends whatever the grace and the
\* interval are.  Each round takes the interval (1 or more) from the seconds
\* left and the loop ends at 0 exactly, so that the countdown ends if and only
\* if the seconds left never pass below 0: they never do.
C27_CountdownReachesZero ==
  \A th \in Threads :
    running[th].countdown.on => running[th].countdown.seconds >= 0

\* the pair a PnL map keeps for a key, (0, 0) when it keeps none
Recorded(map, key) == IF key \in DOMAIN map THEN map[key] ELSE <<0, 0>>

\* does a handler's output hold a "market" frame of the kind
MarketFrame(out, kind) ==
  \E n \in DOMAIN out : out[n][1] = S("market") /\ out[n][2] = S(kind)

\* does a handler's output hold a "pnl" frame of the position
PositionPnlFrame(out, key) ==
  \E n \in DOMAIN out : out[n][1] = S("pnl") /\ out[n][2] = I(key[1]) /\ out[n][3] = I(key[2])

\* does a handler's output hold a "Pnl" frame of the sub-account
AccountPnlFrame(out, id) ==
  \E n \in DOMAIN out : out[n][1] = S("Pnl") /\ out[n][2] = I(id)

\* the positions and the sub-accounts a tick looks at for the session's user
OwnPositions == {PositionKeys[i] : i \in DOMAIN PositionKeys} \cap (UserById(user_).sub_accounts \X SecurityIds)
OwnAccounts == DOMAIN eng.pnl \cap UserById(user_).sub_accounts

\* every value a tick publishes is the one the session has recorded
NothingToPublish ==
  /\ EcAdapter \in DOMAIN ecs_ /\ ecs_[EcAdapter] = eng.ec
  /\ MdAdapter \in DOMAIN mds_ /\ mds_[MdAdapter] = eng.mdc
  /\ \A s \in DOMAIN subs_ : subs_[s].md = MdGet(eng, s)
  /\ sub_pnl_ => /\ \A key \in OwnPositions : Recorded(single_pnls_, key) = eng.pos[key]
                 /\ \A id \in OwnAccounts : Recorded(pnls_, id) = eng.pnl[id]

\* C28: a tick sends a "market", "md", "pnl" or "Pnl" frame only for a key
\* whose current value differs from the one the session has recorded for it,
\* and it leaves every value it looked at recorded; so a tick that finds every
\* recorded value current, as the tick after a tick with no change and no
\* request in between does, sends no frame.
C28_TickPublishesChangesOnly ==
  [][HandlesTick
       => /\ MarketFrame(last'.out, "exchange")
               => (EcAdapter \notin DOMAIN ecs_ \/ ecs_[EcAdapter] # eng.ec)
          /\ MarketFrame(last'.out, "data")
               => (MdAdapter \notin DOMAIN mds_ \/ mds_[MdAdapter] # eng.mdc)
          /\ \A s \in DOMAIN subs_ \cap SecurityIds :
               HasEntry(last'.out, s) => subs_[s].md # eng.md[s]
          /\ \A key \in OwnPositions :
               PositionPnlFrame(last'.out, key)
                 => sub_pnl_ /\ Recorded(single_pnls_, key) # eng.pos[key]
          /\ \A id \in OwnAccounts :
               AccountPnlFrame(last'.out, id) => sub_pnl_ /\ Recorded(pnls_, id) # eng.pnl[id]
          /\ eng' = eng /\ NothingToPublish'
          /\ NothingToPublish => last'.out = <<>>
          /\ \A n \in DOMAIN last'.out :
               last'.out[n][1] \in {S("market"), S("md"), S("pnl"), S("Pnl")}]_vars

\* the second of two ticks with nothing in between sent nothing, after a
\* first tick that sent the changed PnL of position (1, 1) and of sub-account 1
C28_Witness ==
  /\ last.kind = "tick" /\ last.out = <<>> /\ cnt.ticks = 2
  /\ sub_pnl_ /\ 1 \in DOMAIN subs_
  /\ single_pnls_[<<1, 1>>] = <<3, 5>> /\ pnls_[1] = <<3, 5>>
  /\ wire.frame[1] = S("Pnl") /\ wire.task = last.id - 1

====
